---- MODULE Spec2Model ----
(***************************************************************************)
(* Market data acquisition and live price monitoring of the chartist       *)
(* dashboard.                                                              *)
(*                                                                         *)
(*   Spec         the live price monitor of src/App.tsx together with the  *)
(*                submit path of the input form that drives it             *)
(*   SpecService  one call of fetchLivePrice / fetchMarketData of          *)
(*                src/services/geminiService.ts, relay attempt by relay    *)
(*                attempt                                                  *)
(*                                                                         *)
(* React state cells (useState) and refs (useRef) are variables; a state   *)
(* setter is an assignment to its cell.  Every await of the source is a    *)
(* point where other callbacks may run, so an async function is one action *)
(* per segment between awaits.                                             *)
(***************************************************************************)
EXTENDS Integers, Sequences, FiniteSets, TLC

(* ---------------------------------------------------------------------- *)
(* Bounds of the model                                                     *)
(* ---------------------------------------------------------------------- *)
\* number of form submissions explored
MaxRequests == 2
\* number of fetchLivePrice calls of ticks that may be outstanding at once
MaxInFlight == 2
\* saturation of the history counter failRun
MaxFailRun == 6
\* cap of pollingFailureCount (the code never bounds it while no timer
\* handle is held)
MaxCount == 6

(* ---------------------------------------------------------------------- *)
(* Program constants                                                       *)
(* ---------------------------------------------------------------------- *)
\* App.tsx:64  if (pollingFailureCount.current >= 5)
FailureThreshold == 5

Null == "null"
\* values fetchLivePrice hands to the tick (two distinct quotes suffice to
\* tell one publication from another)
QuoteValues == {"101.50", "102.25"}

(* ---------------------------------------------------------------------- *)
(* State of the monitor (src/App.tsx)                                      *)
(* ---------------------------------------------------------------------- *)
VARIABLES
    mounted,              \* the App component is mounted
    isLoading,            \* useState, App.tsx:14
    error,                \* useState, App.tsx:15
    analysisReport,       \* useState, App.tsx:12
    chartData,            \* useState, App.tsx:13
    livePrice,            \* useState, App.tsx:16
    isPollingHalted,      \* useState, App.tsx:17
    priceUpdateInterval,  \* useRef,   App.tsx:18  (0 is null)
    pollingFailureCount,  \* useRef,   App.tsx:19
    activeTimers,         \* host: intervals registered and not yet cleared
    nextTimerId,          \* host: the id the next setInterval returns
    converting,           \* handleSubmit calls awaiting blobToBase64
    pending,              \* handleAnalysisRequest calls awaiting the report
    submitted,            \* form submissions so far
    inflight,             \* ticks awaiting fetchLivePrice, in issue order
    \* history variables
    failRun,              \* failures applied in a row since the last
                          \* applied success / timer registration
    ownFailRun,           \* failures in a row of ticks of the timer
                          \* registered last, none of them stopped
                          \* (0 once stopPolling() ended the session:
                          \* it has no such ticks any more)
    successSeen,          \* a success was applied since the registration
    haltEmits,            \* setIsPollingHalted(true) calls since the
                          \* registration
    sessionTimer,         \* id of the timer registered last
    sessionStopped,       \* stopPolling() (not the halt) ran since then
    lastOp                \* what the last step did

monitorVars == << mounted, isLoading, error, analysisReport, chartData,
                  livePrice, isPollingHalted, priceUpdateInterval,
                  pollingFailureCount, activeTimers, nextTimerId, converting,
                  pending, submitted, inflight, failRun, ownFailRun, successSeen,
                  haltEmits, sessionTimer, sessionStopped, lastOp >>

(* ---------------------------------------------------------------------- *)
(* State of one market data call (src/services/geminiService.ts)           *)
(* ---------------------------------------------------------------------- *)
VARIABLES
    sOp,           \* "quote": fetchLivePrice, "series": fetchMarketData,
                   \* "idle": no call is modelled
    sSymbol,       \* the symbol argument, a sequence of characters
    sPc,           \* the await the call is suspended at
    proxyIdx,      \* index into PROXIES of the attempt in progress
    lastError,     \* yahooFinanceFetch: let lastError
    timeoutArmed,  \* the setTimeout of the attempt is pending
    primary,       \* history: state of the Yahoo attempt
    log,           \* history: provider invocations and network requests
    outcome,       \* how the call ended
    finnhubKey,    \* the value of the module constant FINNHUB_API_KEY
    sTimeframe,    \* the timeframe argument of fetchMarketData
    requests       \* history: the query of each provider request built

(* One normalization of a provider's candle payload into a series *)
VARIABLES
    nProvider,     \* "yahoo", "finnhub", or "none" when none is under way
    upstream,      \* the parallel arrays of the provider's payload
    series         \* the MarketDataPayload built from them

seriesVars == << nProvider, upstream, series >>

(* Two calls of fetchLivePrice one after the other *)
VARIABLES
    callNo,        \* 1 or 2: which of the two calls is running; 0 when a
                   \* single call is modelled
    firstRun,      \* history: what the first call observed, step by step,
                   \* and its state after each step
    replay         \* the step of firstRun the second call has reached

twiceVars == << callNo, firstRun, replay >>

serviceVars == << sOp, sSymbol, sPc, proxyIdx, lastError, timeoutArmed,
                  primary, log, outcome, finnhubKey, sTimeframe, requests,
                  seriesVars, twiceVars >>

vars == << monitorVars, serviceVars >>

NoOp == [op |-> "none", result |-> "-", halted |-> FALSE, stopped |-> FALSE,
         own |-> FALSE, overtaken |-> FALSE]
Op(o) == [NoOp EXCEPT !.op = o]

(* The cells stopPolling reads and writes, as one record. *)
Cells == [interval |-> priceUpdateInterval,
          count    |-> pollingFailureCount,
          halted   |-> isPollingHalted,
          timers   |-> activeTimers,
          emits    |-> haltEmits]

(* a stop that never raises the halted flag *)
stopPolling_NoFlag(m, halted) ==
    IF m.interval # 0
    THEN [m EXCEPT !.interval = 0, !.count = 0,
                   !.timers = m.timers \ {m.interval}]
    ELSE m

(* stopPolling(halted), App.tsx:21-30 *)
stopPolling(m, halted) ==
    IF m.interval # 0
    THEN [interval |-> 0,
          count    |-> 0,
          halted   |-> IF halted THEN TRUE ELSE m.halted,
          timers   |-> m.timers \ {m.interval},
          emits    |-> IF halted THEN m.emits + 1 ELSE m.emits]
    ELSE m

(* marks the ticks that are outstanding when stopPolling() is called:   *)
(* they belong to no session any more, so their history is cleared       *)
MarkStopped(q) ==
    [i \in 1..Len(q) |-> [timer |-> 0, stopped |-> TRUE, overtaken |-> FALSE]]

RemoveAt(q, i) == SubSeq(q, 1, i - 1) \o SubSeq(q, i + 1, Len(q))

(* history: the ticks of timer t issued before the i-th one and still     *)
(* outstanding have been overtaken by a published price                    *)
Overtake(q, i, t) ==
    [j \in 1..Len(q) |->
        IF j < i /\ q[j].timer = t /\ ~q[j].stopped
        THEN [q[j] EXCEPT !.overtaken = TRUE] ELSE q[j]]

MonitorInit ==
    /\ mounted = TRUE
    /\ isLoading = FALSE
    /\ error = Null
    /\ analysisReport = Null
    /\ chartData = Null
    /\ livePrice = Null
    /\ isPollingHalted = FALSE
    /\ priceUpdateInterval = 0
    /\ pollingFailureCount = 0
    /\ activeTimers = {}
    /\ nextTimerId = 1
    /\ converting = 0
    /\ pending = 0
    /\ submitted = 0
    /\ inflight = << >>
    /\ failRun = 0
    /\ ownFailRun = 0
    /\ successSeen = FALSE
    /\ haltEmits = 0
    /\ sessionTimer = 0
    /\ sessionStopped = FALSE
    /\ lastOp = NoOp

(* handleAnalysisRequest up to its await, App.tsx:37-47 *)
AnalysisStart ==
    LET m == stopPolling([Cells EXCEPT !.halted = FALSE], FALSE) IN
    /\ isLoading' = TRUE
    /\ error' = Null
    /\ analysisReport' = Null
    /\ chartData' = Null
    /\ livePrice' = Null
    /\ isPollingHalted' = m.halted
    /\ priceUpdateInterval' = m.interval
    /\ pollingFailureCount' = m.count
    /\ activeTimers' = m.timers
    /\ haltEmits' = m.emits
    /\ pending' = pending + 1
    /\ inflight' = MarkStopped(inflight)
    /\ sessionStopped' = TRUE
    /\ ownFailRun' = 0
    /\ lastOp' = Op("stop")
    /\ UNCHANGED serviceVars
    /\ UNCHANGED << mounted, nextTimerId, failRun, successSeen, sessionTimer >>

(* InputForm handleSubmit without an image: the submit button is enabled  *)
(* only while isLoading is false; onAnalysisRequest runs in the same task *)
SubmitSymbol ==
    /\ mounted
    /\ ~isLoading
    /\ submitted < MaxRequests
    /\ submitted' = submitted + 1
    /\ AnalysisStart
    /\ UNCHANGED converting

(* InputForm handleSubmit with an image: awaits blobToBase64 before       *)
(* calling onAnalysisRequest; isLoading is still false meanwhile          *)
SubmitImage ==
    /\ mounted
    /\ ~isLoading
    /\ submitted < MaxRequests
    /\ submitted' = submitted + 1
    /\ converting' = converting + 1
    /\ lastOp' = NoOp
    /\ UNCHANGED serviceVars
    /\ UNCHANGED << mounted, isLoading, error, analysisReport, chartData,
                    livePrice, isPollingHalted, priceUpdateInterval,
                    pollingFailureCount, activeTimers, nextTimerId, pending,
                    inflight, failRun, ownFailRun, successSeen, haltEmits, sessionTimer,
                    sessionStopped >>

(* blobToBase64 resolved: handleSubmit calls onAnalysisRequest *)
ConvertDone ==
    /\ converting > 0
    /\ converting' = converting - 1
    /\ AnalysisStart
    /\ UNCHANGED submitted

(* blobToBase64 rejected: handleSubmit ends without a request *)
ConvertFail ==
    /\ converting > 0
    /\ converting' = converting - 1
    /\ lastOp' = NoOp
    /\ UNCHANGED serviceVars
    /\ UNCHANGED << mounted, isLoading, error, analysisReport, chartData,
                    livePrice, isPollingHalted, priceUpdateInterval,
                    pollingFailureCount, activeTimers, nextTimerId, pending,
                    submitted, inflight, failRun, ownFailRun, successSeen, haltEmits,
                    sessionTimer, sessionStopped >>

(* getTechnicalAnalysis resolved: App.tsx:47-70 and the finally of 75-77. *)
(* hasSymbol: report.summaryTable?.symbol is non-empty; hasChart: the     *)
(* result carries chart data (a request with a symbol)                    *)
AnalysisResolved(hasSymbol, hasChart) ==
    /\ pending > 0
    /\ pending' = pending - 1
    /\ analysisReport' = "report"
    /\ chartData' = IF hasChart THEN "data" ELSE Null
    /\ IF hasSymbol
       THEN /\ priceUpdateInterval' = nextTimerId
            /\ activeTimers' = activeTimers \cup {nextTimerId}
            /\ nextTimerId' = nextTimerId + 1
            /\ failRun' = 0
            /\ ownFailRun' = 0
            /\ successSeen' = FALSE
            /\ haltEmits' = 0
            /\ sessionTimer' = nextTimerId
            /\ sessionStopped' = FALSE
            /\ lastOp' = Op("register")
       ELSE /\ lastOp' = NoOp
            /\ UNCHANGED << priceUpdateInterval, activeTimers, nextTimerId,
                            failRun, ownFailRun, successSeen, haltEmits, sessionTimer,
                            sessionStopped >>
    /\ isLoading' = FALSE
    /\ UNCHANGED serviceVars
    /\ UNCHANGED << mounted, error, livePrice, isPollingHalted,
                    pollingFailureCount, converting, submitted, inflight >>

(* getTechnicalAnalysis rejected: App.tsx:72-77 *)
AnalysisRejected ==
    /\ pending > 0
    /\ pending' = pending - 1
    /\ error' = "message"
    /\ isLoading' = FALSE
    /\ lastOp' = Op("reject")
    /\ UNCHANGED serviceVars
    /\ UNCHANGED << mounted, analysisReport, chartData, livePrice,
                    isPollingHalted, priceUpdateInterval, pollingFailureCount,
                    activeTimers, nextTimerId, converting, submitted,
                    inflight, failRun, ownFailRun, successSeen, haltEmits, sessionTimer,
                    sessionStopped >>

(* the host fires the interval callback, which calls fetchLivePrice and   *)
(* awaits it: App.tsx:56-57.  The host does not wait for earlier calls.   *)
Tick(t) ==
    /\ t \in activeTimers
    /\ Len(inflight) < MaxInFlight
    /\ inflight' = Append(inflight, [timer |-> t, stopped |-> FALSE,
                                     overtaken |-> FALSE])
    /\ lastOp' = Op("issue")
    /\ UNCHANGED serviceVars
    /\ UNCHANGED << mounted, isLoading, error, analysisReport, chartData,
                    livePrice, isPollingHalted, priceUpdateInterval,
                    pollingFailureCount, activeTimers, nextTimerId,
                    converting, pending, submitted, failRun, ownFailRun, successSeen,
                    haltEmits, sessionTimer, sessionStopped >>

(* a threshold test that lets the fifth failure pass *)
ThresholdReached_Strict(c) == c > FailureThreshold

(* App.tsx:64  pollingFailureCount.current >= 5 *)
ThresholdReached(c) == c >= FailureThreshold

(* a success that leaves the counter as it is *)
CountAfterSuccess_Kept(c) == c

(* App.tsx:60  pollingFailureCount.current = 0 *)
CountAfterSuccess(c) == 0

(* a failure that counts twice *)
CountAfterFailure_Twice(c) == c + 2

(* App.tsx:62  pollingFailureCount.current += 1 *)
CountAfterFailure(c) == c + 1

Saturate(n) == IF n < MaxFailRun THEN n + 1 ELSE MaxFailRun

(* ownFailRun tells fewer than 5 failures from 5 or more *)
SaturateOwn(n) == IF n < FailureThreshold THEN n + 1 ELSE FailureThreshold

(* history: the tick was issued by the timer registered last, and no     *)
(* stopPolling() has run since it was issued                              *)
OwnTick(tick) == tick.timer = sessionTimer /\ ~tick.stopped

(* fetchLivePrice of the i-th outstanding tick resolved with newPrice:    *)
(* the rest of the interval callback, App.tsx:58-68                       *)
TickDone(i, newPrice) ==
    /\ i \in 1..Len(inflight)
    /\ newPrice = Null => pollingFailureCount < MaxCount
    /\ IF newPrice # Null
       THEN /\ livePrice' = newPrice
            /\ pollingFailureCount' = CountAfterSuccess(pollingFailureCount)
            /\ inflight' = Overtake(RemoveAt(inflight, i), i,
                                    inflight[i].timer)
            /\ failRun' = 0
            /\ ownFailRun' = IF OwnTick(inflight[i]) THEN 0 ELSE ownFailRun
            /\ successSeen' = TRUE
            /\ lastOp' = [op |-> "apply", result |-> newPrice,
                          halted |-> FALSE, stopped |-> inflight[i].stopped,
                          own |-> OwnTick(inflight[i]),
                          overtaken |-> inflight[i].overtaken]
            /\ UNCHANGED << isPollingHalted, priceUpdateInterval,
                            activeTimers, haltEmits >>
       ELSE LET c == CountAfterFailure(pollingFailureCount)
                m == IF ThresholdReached(c)
                     THEN stopPolling([Cells EXCEPT !.count = c], TRUE)
                     ELSE [Cells EXCEPT !.count = c]
            IN /\ pollingFailureCount' = m.count
               /\ priceUpdateInterval' = m.interval
               /\ activeTimers' = m.timers
               /\ isPollingHalted' = m.halted
               /\ haltEmits' = m.emits
               /\ inflight' = RemoveAt(inflight, i)
               /\ failRun' = Saturate(failRun)
               /\ ownFailRun' = IF OwnTick(inflight[i])
                                THEN SaturateOwn(ownFailRun) ELSE ownFailRun
               /\ lastOp' = [op |-> "apply", result |-> Null,
                             halted |-> m.emits # haltEmits,
                             stopped |-> inflight[i].stopped,
                             own |-> OwnTick(inflight[i]),
                             overtaken |-> inflight[i].overtaken]
               /\ UNCHANGED << livePrice, successSeen >>
    /\ UNCHANGED serviceVars
    /\ UNCHANGED << mounted, isLoading, error, analysisReport, chartData,
                    nextTimerId, converting, pending, submitted,
                    sessionTimer, sessionStopped >>

(* cleanup of the effect at unmount, App.tsx:33-35 *)
Unmount ==
    LET m == stopPolling(Cells, FALSE) IN
    /\ mounted
    /\ mounted' = FALSE
    /\ isPollingHalted' = m.halted
    /\ priceUpdateInterval' = m.interval
    /\ pollingFailureCount' = m.count
    /\ activeTimers' = m.timers
    /\ haltEmits' = m.emits
    /\ inflight' = MarkStopped(inflight)
    /\ sessionStopped' = TRUE
    /\ ownFailRun' = 0
    /\ lastOp' = Op("stop")
    /\ UNCHANGED serviceVars
    /\ UNCHANGED << isLoading, error, analysisReport, chartData, livePrice,
                    nextTimerId, converting, pending, submitted, failRun,
                    successSeen, sessionTimer >>


(* ====================================================================== *)
(* One market data call (src/services/geminiService.ts)                    *)
(* ====================================================================== *)

(* geminiService.ts:9 *)
FINNHUB_API_KEY == "d4758fhr01qh8nnb7glgd4758fhr01qh8nnb7gm0"

(* geminiService.ts:27-32 *)
PROXIES ==
    << [prefix |-> "https://corsproxy.io/?", encode |-> FALSE],
       [prefix |-> "https://cors.eu.org/", encode |-> FALSE],
       [prefix |-> "https://thingproxy.freeboard.io/fetch/", encode |-> FALSE],
       [prefix |-> "https://api.allorigins.win/raw?url=", encode |-> TRUE] >>

(* symbols are sequences of characters: "", "A", "T.NS", "NS" *)
Symbols == { << >>, <<"A">>, <<"T", ".", "N", "S">>, <<"N", "S">> }

(* a suffix test that only accepts the suffix itself *)
endsWith_Exact(str, suffix) == str = suffix

(* String.prototype.endsWith *)
endsWith(str, suffix) ==
    /\ Len(str) >= Len(suffix)
    /\ SubSeq(str, Len(str) - Len(suffix) + 1, Len(str)) = suffix

(* the suffix of geminiService.ts:103 and :151 *)
ExcludedSuffix == <<".", "N", "S">>

(* JSON values of a price field and values handed back by the service:    *)
(*   missing     the field is absent or null                               *)
(*   num  n      the number n / 1000                                       *)
(*   str  n      a string that parseFloat reads as n / 1000                *)
(*   nan         a string that parseFloat reads as NaN                     *)
(*   fixed2 n    the two-decimal string of n / 100                         *)
(*   N/A         the placeholder string of formatPrice                     *)
(*   null        null                                                      *)
Val(t, n) == [t |-> t, n |-> n]
NullValue == Val("null", 0)

PriceFields == { Val("missing", 0), Val("num", 0), Val("num", 101505),
                 Val("str", 101500), Val("nan", 0) }

(* JavaScript truthiness of a price field (strings here are non-empty) *)
Truthy(v) ==
    CASE v.t = "missing" -> FALSE
      [] v.t = "num" -> v.n # 0
      [] OTHER -> TRUE

(* parseFloat on a string value *)
parseFloat(v) == IF v.t = "str" THEN Val("num", v.n) ELSE Val("NaN", 0)

(* Number.prototype.toFixed(2) on n / 1000, n >= 0, as hundredths *)
toFixed2(n) == (n + 5) \div 10

(* formatPrice, geminiService.ts:18-22 *)
formatPrice(value) ==
    LET num == IF value.t \in {"str", "nan"} THEN parseFloat(value) ELSE value
    IN IF num.t = "num" THEN Val("fixed2", toFixed2(num.n)) ELSE Val("N/A", 0)

(* how an async function ends *)
Pending == [kind |-> "pending", value |-> NullValue, error |-> Null]
Return(v) == [kind |-> "return", value |-> v, error |-> Null]
Throw(e) == [kind |-> "throw", value |-> NullValue, error |-> e]

(* geminiService.ts:64 *)
TimeoutMessage == "Request timed out. The data provider is not responding."

(* geminiService.ts:248 *)
FallbackUnavailableMessage ==
    "Failed to fetch market data for '${symbol}'. The symbol may be invalid or not supported by the data provider."

(* geminiService.ts:255 *)
AllProvidersFailedMessage ==
    "Failed to fetch market data for '${symbol}' from all providers. The symbol may be invalid or providers are down."

(* geminiService.ts:104 *)
UnsupportedAssetMessage ==
    "Primary data source failed for Indian stock; Finnhub fallback is not supported for this asset on the current plan."

(* entries of the history log: what happened, at which proxy, with which *)
(* error                                                                 *)
EvD(e, i, d) == [ev |-> e, i |-> i, d |-> d]
Ev(e, i) == EvD(e, i, "-")

(* the part of the service state a step rewrites *)
SvcState == [pc |-> sPc, idx |-> proxyIdx, err |-> lastError,
             armed |-> timeoutArmed, primary |-> primary, log |-> log,
             outcome |-> outcome, req |-> requests]

SetSvc(r) ==
    /\ sPc' = r.pc
    /\ proxyIdx' = r.idx
    /\ lastError' = r.err
    /\ timeoutArmed' = r.armed
    /\ primary' = r.primary
    /\ log' = r.log
    /\ outcome' = r.outcome
    /\ requests' = r.req
    /\ UNCHANGED << sOp, sSymbol, finnhubKey, sTimeframe, seriesVars >>
    /\ callNo = 0 => UNCHANGED twiceVars
    /\ UNCHANGED monitorVars

Finish(r, out) == [r EXCEPT !.pc = "done", !.outcome = out]

(* the query of a provider request: the bar size and the span asked for   *)
Query(provider, step, span) ==
    [provider |-> provider, step |-> step, span |-> span]

(* a secondary provider that has no weekly bars *)
finnhubParams_WeekAsDay(timeframe) ==
    CASE timeframe = "Intraday" -> Query("finnhub", "15", "5d")
      [] timeframe = "Weekly" -> Query("finnhub", "D", "5y")
      [] timeframe = "Monthly" -> Query("finnhub", "M", "20y")
      [] OTHER -> Query("finnhub", "D", "2y")

(* the switch of fetchMarketDataFromFinnhub, geminiService.ts:113-118:    *)
(* resolution, and how far back `from` lies                                *)
finnhubParams(timeframe) ==
    CASE timeframe = "Intraday" -> Query("finnhub", "15", "5d")
      [] timeframe = "Weekly" -> Query("finnhub", "W", "5y")
      [] timeframe = "Monthly" -> Query("finnhub", "M", "20y")
      [] OTHER -> Query("finnhub", "D", "2y")

(* the switch of fetchMarketDataFromYahoo, geminiService.ts:197-202:      *)
(* interval and range                                                      *)
yahooParams(timeframe) ==
    CASE timeframe = "Intraday" -> Query("yahoo", "15m", "5d")
      [] timeframe = "Weekly" -> Query("yahoo", "1wk", "5y")
      [] timeframe = "Monthly" -> Query("yahoo", "1mo", "max")
      [] OTHER -> Query("yahoo", "1d", "2y")

(* the four values the form offers, an unknown one and the empty string   *)
Timeframes == {"Intraday", "Daily", "Weekly", "Monthly", "Hourly", ""}

(* the query of the Yahoo url: geminiService.ts:169 for a quote, :204 for *)
(* a series                                                                *)
YahooQuery(op, timeframe) ==
    IF op = "quote" THEN Query("yahoo", "1m", "1d")
    ELSE yahooParams(timeframe)

(* the query of the Finnhub url: geminiService.ts:157 for a quote, :120   *)
(* for candles                                                             *)
FinnhubQuery(op, timeframe) ==
    IF op = "quote" THEN Query("finnhub", "quote", "-")
    ELSE finnhubParams(timeframe)

(* top of the loop body of yahooFinanceFetch, geminiService.ts:37-46:     *)
(* arm the 30 s timeout and issue the request through PROXIES[i]          *)
BeginAttempt(r, i) ==
    [r EXCEPT !.pc = "relayFetch", !.idx = i, !.armed = TRUE,
              !.log = Append(@, Ev("proxy", i))]

(* a quote function that requests without looking at the credential *)
fetchLivePriceFromFinnhub_NoKeyCheck(symbol) ==
    IF endsWith(symbol, ExcludedSuffix) THEN Return(NullValue) ELSE Pending

(* fetchLivePriceFromFinnhub up to its first await, geminiService.ts:     *)
(* 145-158: the result if it returns at once, Pending if it requests      *)
fetchLivePriceFromFinnhub(symbol) ==
    IF finnhubKey = "" THEN Return(NullValue)
    ELSE IF endsWith(symbol, ExcludedSuffix) THEN Return(NullValue)
    ELSE Pending

(* fetchMarketDataFromFinnhub up to its first await, geminiService.ts:    *)
(* 99-121                                                                 *)
fetchMarketDataFromFinnhub(symbol) ==
    IF finnhubKey = "" THEN Throw("keyNotSet")
    ELSE IF endsWith(symbol, ExcludedSuffix)
    THEN Throw(UnsupportedAssetMessage)
    ELSE Pending

(* an inner catch that lets the error of the fallback through *)
fetchLivePrice_catch_Rethrow(r) == r

(* the inner catch of fetchLivePrice, geminiService.ts:186-189 *)
fetchLivePrice_catch(r) == IF r.kind = "throw" THEN Return(NullValue) ELSE r

(* an inner catch that passes the provider's own error on *)
fetchMarketData_catch_Rethrow(r) == r

(* the inner catch of fetchMarketData, geminiService.ts:253-256 *)
fetchMarketData_catch(r) ==
    IF r.kind = "throw" THEN Throw(AllProvidersFailedMessage) ELSE r

(* how the secondary provider's result reaches the caller of the service *)
SecondaryResult(op, r) ==
    IF op = "quote" THEN fetchLivePrice_catch(r) ELSE fetchMarketData_catch(r)

(* the secondary provider function has ended with got: the history entry *)
(* and what the caller of the service sees                               *)
SecondaryEnd(r, op, got) ==
    Finish([r EXCEPT !.log = Append(@, IF got.kind = "throw"
                                       THEN EvD("finnhub.throw", 0, got.error)
                                       ELSE Ev("finnhub.return", 0))],
           SecondaryResult(op, got))

(* an orchestrator that gives up without calling the secondary provider *)
Fallback_NoInvoke(r, op, symbol) ==
    Finish([r EXCEPT !.primary = "failed"],
           SecondaryResult(op, Throw("noFallback")))

(* the outer catch of fetchLivePrice (geminiService.ts:182-185) and of    *)
(* fetchMarketData (geminiService.ts:244-252): what runs, up to the next  *)
(* await, once the Yahoo attempt has thrown                               *)
Fallback(r, op, symbol) ==
    LET r1 == [r EXCEPT !.primary = "failed"] IN
    IF op = "series" /\ finnhubKey = ""
    THEN Finish(r1, Throw(FallbackUnavailableMessage))
    ELSE LET pre == IF op = "quote" THEN fetchLivePriceFromFinnhub(symbol)
                    ELSE fetchMarketDataFromFinnhub(symbol)
             r2 == [r1 EXCEPT !.log = Append(@, Ev("finnhub", 0))]
         IN IF pre.kind = "pending"
            THEN [r2 EXCEPT !.pc = "finnhubFetch",
                            !.log = Append(@, Ev("finnhub.fetch", 0)),
                            !.req = Append(@, FinnhubQuery(op, sTimeframe))]
            ELSE SecondaryEnd(r2, op, pre)

(* the catch of one attempt, geminiService.ts:60-68, and the loop exit of *)
(* geminiService.ts:70                                                    *)
(* a catch that keeps every error as it was thrown *)
catchAttempt_Raw(e) == e

(* the error kept in lastError for a caught error, geminiService.ts:63-67 *)
catchAttempt(e) == IF e = "AbortError" THEN TimeoutMessage ELSE e

(* a relay that gives up at the first failed intermediary *)
AttemptFailed_GiveUp(r, e, op, symbol) ==
    Fallback([r EXCEPT !.armed = FALSE, !.err = catchAttempt(e),
                       !.log = Append(Append(@, EvD("proxy.fail", r.idx, e)),
                                      Ev("relay.throw", 0))],
             op, symbol)

(* the catch block of one attempt and what follows it: the next turn of   *)
(* the loop, or the throw after the loop, geminiService.ts:59-71          *)
AttemptFailed(r, e, op, symbol) ==
    LET r1 == [r EXCEPT !.armed = FALSE, !.err = catchAttempt(e),
                        !.log = Append(@, EvD("proxy.fail", r.idx, e))] IN
    IF r.idx < Len(PROXIES)
    THEN BeginAttempt(r1, r.idx + 1)
    ELSE Fallback([r1 EXCEPT !.log = Append(@, Ev("relay.throw", 0))],
                  op, symbol)

ServiceIdle ==
    /\ sOp = "idle"
    /\ sSymbol = << >>
    /\ sPc = "idle"
    /\ proxyIdx = 0
    /\ lastError = Null
    /\ timeoutArmed = FALSE
    /\ primary = "none"
    /\ log = << >>
    /\ outcome = Pending
    /\ finnhubKey = FINNHUB_API_KEY
    /\ sTimeframe = "-"
    /\ requests = << >>

(* fetchMarketData is called by getTechnicalAnalysis only for a non-empty *)
(* symbol (geminiService.ts:468); fetchLivePrice tests its own argument   *)
CallInit ==
    /\ sOp \in {"quote", "series"}
    /\ sSymbol \in Symbols
    /\ sOp = "series" => sSymbol # << >>
    /\ sPc = "start"
    /\ proxyIdx = 0
    /\ lastError = Null
    /\ timeoutArmed = FALSE
    /\ primary = "none"
    /\ log = << >>
    /\ outcome = Pending
    /\ sTimeframe \in (IF sOp = "series" THEN Timeframes ELSE {"-"})
    /\ requests = << >>

(* the build as it is: the credential is the literal of line 9 *)
ServiceInit == CallInit /\ finnhubKey = FINNHUB_API_KEY

(* a build whose FINNHUB_API_KEY is empty *)
UnconfiguredInit == CallInit /\ finnhubKey = ""

(* fetchLivePrice, geminiService.ts:178-181 / fetchMarketData, 240-243,   *)
(* into the provider and the first relay attempt                          *)
SvcStart ==
    /\ sPc = "start"
    /\ IF sOp = "quote" /\ sSymbol = << >>
       THEN SetSvc(Finish(SvcState, Return(NullValue)))
       ELSE SetSvc(BeginAttempt([SvcState EXCEPT
                                    !.primary = "running",
                                    !.log = Append(@, Ev("yahoo", 0)),
                                    !.req = Append(@, YahooQuery(sOp,
                                                          sTimeframe))], 1))

RelayFetchResults == {"response.ok", "response.bad", "reject", "abort"}

(* await fetch(fetchUrl, ...) of the attempt settles,                     *)
(* geminiService.ts:43-51                                                 *)
RelayFetch(res) ==
    /\ sPc = "relayFetch"
    /\ res = "abort" => timeoutArmed
    /\ CASE res = "response.ok" ->
              SetSvc([SvcState EXCEPT !.pc = "relayBody", !.armed = FALSE])
         [] res = "response.bad" ->
              SetSvc(AttemptFailed(SvcState, "status", sOp, sSymbol))
         [] res = "reject" ->
              SetSvc(AttemptFailed(SvcState, "network", sOp, sSymbol))
         [] res = "abort" ->
              SetSvc(AttemptFailed(SvcState, "AbortError", sOp, sSymbol))

RelayBodyResults == {"reject", "chart.error", "no.result", "data"}

(* shapes of chart.result[0] for a series request *)
SeriesShapes == {"no.result0", "no.timestamp", "no.open", "rows"}

(* fetchLivePriceFromYahoo after the relay, geminiService.ts:171-175 *)
fetchLivePriceFromYahoo(price) ==
    IF ~Truthy(price) THEN Throw("noLivePrice")
    ELSE Return(formatPrice(price))

(* fetchMarketDataFromYahoo after the relay, geminiService.ts:207-237 *)
fetchMarketDataFromYahoo(shape) ==
    IF shape # "rows" THEN Throw("noSeries")
    ELSE Return(Val("series.yahoo", 0))

(* await response.json() of the attempt settles, geminiService.ts:52-59,  *)
(* and on a valid envelope the provider reads the payload                 *)
RelayBody(res, price, shape) ==
    /\ sPc = "relayBody"
    /\ CASE res = "reject" ->
              SetSvc(AttemptFailed(SvcState, "body", sOp, sSymbol))
         [] res = "chart.error" ->
              SetSvc(AttemptFailed(SvcState, "apiError", sOp, sSymbol))
         [] res = "no.result" ->
              SetSvc(AttemptFailed(SvcState, "malformed", sOp, sSymbol))
         [] res = "data" ->
              LET got == IF sOp = "quote" THEN fetchLivePriceFromYahoo(price)
                         ELSE fetchMarketDataFromYahoo(shape)
                  r == [SvcState EXCEPT
                           !.log = Append(@, Ev("proxy.data", proxyIdx))]
              IN IF got.kind = "throw"
                 THEN SetSvc(Fallback(r, sOp, sSymbol))
                 ELSE SetSvc(Finish([r EXCEPT !.primary = "ok"], got))

FinnhubFetchResults == {"response.ok", "response.bad", "reject"}

(* await fetch(url) of the Finnhub request settles,                       *)
(* geminiService.ts:121-122 and 158-159                                   *)
FinnhubFetch(res) ==
    /\ sPc = "finnhubFetch"
    /\ IF res = "response.ok"
       THEN SetSvc([SvcState EXCEPT !.pc = "finnhubBody"])
       ELSE SetSvc(SecondaryEnd(SvcState, sOp, Throw("finnhubRequest")))

FinnhubBodyResults == {"reject", "data"}

FinnhubShapes == {"no_data", "empty", "rows"}

(* fetchLivePriceFromFinnhub after the response, geminiService.ts:160-163 *)
finnhubQuote(price) ==
    IF ~Truthy(price) \/ price = Val("num", 0) THEN Throw("noLivePrice")
    ELSE Return(formatPrice(price))

(* fetchMarketDataFromFinnhub after the response, geminiService.ts:       *)
(* 124-142                                                                *)
finnhubSeries(shape) ==
    IF shape # "rows" THEN Throw("noSeries")
    ELSE Return(Val("series.finnhub", 0))

(* await response.json() of the Finnhub request settles *)
FinnhubBody(res, price, shape) ==
    /\ sPc = "finnhubBody"
    /\ LET got == IF res = "reject" THEN Throw("finnhubBody")
                  ELSE IF sOp = "quote" THEN finnhubQuote(price)
                  ELSE finnhubSeries(shape)
       IN SetSvc(SecondaryEnd(SvcState, sOp, got))

(***************************************************************************)
(* Two calls of fetchLivePrice for the same symbol, the second after the   *)
(* first has returned.  The first call's observations (what each await     *)
(* settled with) are recorded; the second call is given the same ones.     *)
(***************************************************************************)

(* what an await of the call settled with: the await, the result, and the *)
(* price field read from a payload                                         *)
Obs(at, res, price) == [at |-> at, res |-> res, price |-> price]

(* an activation that finds lastError as the call before left it *)
CallLocals_Sticky(r) ==
    [r EXCEPT !.pc = "start", !.idx = 0, !.armed = FALSE,
              !.primary = "none", !.log = << >>, !.outcome = Pending,
              !.req = << >>]

(* a new activation of fetchLivePrice: every local of the call and of     *)
(* yahooFinanceFetch is created anew (geminiService.ts:35-39, 178); the    *)
(* module holds constants only                                             *)
CallLocals(r) ==
    [r EXCEPT !.pc = "start", !.idx = 0, !.err = Null, !.armed = FALSE,
              !.primary = "none", !.log = << >>, !.outcome = Pending,
              !.req = << >>]

TwiceIdle ==
    /\ callNo = 0
    /\ firstRun = << >>
    /\ replay = 0

TwiceInit ==
    /\ ServiceInit
    /\ sOp = "quote"
    /\ callNo = 1
    /\ firstRun = << [obs |-> Obs("call", "-", NullValue),
                      after |-> SvcState] >>
    /\ replay = 0

(* the first call records the observation; the second call takes a step   *)
(* only with the observation the first call had at the same point          *)
Observe(o) ==
    IF callNo = 1
    THEN /\ firstRun' = Append(firstRun, [obs |-> o, after |-> SvcState'])
         /\ UNCHANGED << callNo, replay >>
    ELSE /\ replay < Len(firstRun)
         /\ firstRun[replay + 1].obs = o
         /\ replay' = replay + 1
         /\ UNCHANGED << callNo, firstRun >>

TwiceStart ==
    /\ callNo \in {1, 2}
    /\ SvcStart
    /\ Observe(Obs("enter", "-", NullValue))

TwiceRelayFetch(res) ==
    /\ callNo \in {1, 2}
    /\ RelayFetch(res)
    /\ Observe(Obs("relayFetch", res, NullValue))

TwiceRelayBody(res, price) ==
    /\ callNo \in {1, 2}
    /\ res # "data" => price = NullValue
    /\ RelayBody(res, price, "rows")
    /\ Observe(Obs("relayBody", res, price))

TwiceFinnhubFetch(res) ==
    /\ callNo \in {1, 2}
    /\ FinnhubFetch(res)
    /\ Observe(Obs("finnhubFetch", res, NullValue))

TwiceFinnhubBody(res, price) ==
    /\ callNo \in {1, 2}
    /\ res # "data" => price = NullValue
    /\ FinnhubBody(res, price, "rows")
    /\ Observe(Obs("finnhubBody", res, price))

(* the first call has returned; fetchLivePrice is called again *)
CallAgain ==
    /\ callNo = 1
    /\ sPc = "done"
    /\ callNo' = 2
    /\ replay' = 1
    /\ SetSvc(CallLocals(SvcState))
    /\ UNCHANGED firstRun

(***************************************************************************)
(* Series normalization: fetchMarketDataFromYahoo after its guard          *)
(* (geminiService.ts:212-237) and fetchMarketDataFromFinnhub after its     *)
(* guard (geminiService.ts:127-142) as functions of the payload's arrays.  *)
(* An array entry is JNull (JSON null) or Num(n): a timestamp of n         *)
(* seconds, a price of n / 1000, a volume of n.                            *)
(***************************************************************************)
MaxRows == 3
MaxTime == 2

JNull == Val("missing", 0)
Num(n) == Val("num", n)

(* new Date(ts * 1000).toISOString().split('T')[0]: the UTC day of ts *)
SecondsPerDay == 86400
DateOf(ts) == ts.n \div SecondsPerDay

(* timestamps half a day apart, so that two bars can share a date *)
HalfDay == 43200
TimeInputs == {JNull} \cup {Num(k * HalfDay) : k \in 1..MaxTime}

Quote(o, h, l, c, v) ==
    [open |-> o, high |-> h, low |-> l, close |-> c, volume |-> v]

(* bars as the providers send them: complete, with one field null, with a *)
(* price of zero, falling                                                  *)
QuoteInputs ==
    { Quote(Num(1000), Num(1200), Num(900), Num(1100), Num(5)),
      Quote(JNull, Num(1200), Num(900), Num(1100), Num(5)),
      Quote(Num(1000), JNull, Num(900), Num(1100), Num(5)),
      Quote(Num(1000), Num(1200), JNull, Num(1100), Num(5)),
      Quote(Num(1000), Num(1200), Num(900), JNull, Num(5)),
      Quote(Num(1000), Num(1200), Num(900), Num(950), JNull),
      Quote(Num(0), Num(1200), Num(0), Num(1100), Num(5)) }

(* the payload's parallel arrays for a list of bars *)
Arrays(ts, q) ==
    [timestamp |-> ts,
     open |-> [i \in DOMAIN q |-> q[i].open],
     high |-> [i \in DOMAIN q |-> q[i].high],
     low |-> [i \in DOMAIN q |-> q[i].low],
     close |-> [i \in DOMAIN q |-> q[i].close],
     volume |-> [i \in DOMAIN q |-> q[i].volume]]

UpColor == "rgba(40, 167, 69, 0.5)"
DownColor == "rgba(220, 53, 69, 0.5)"

(* one line of the csv text; the header line has kind "header" *)
CsvLine(k, date, o, h, l, c, v) ==
    [kind |-> k, date |-> date, o |-> o, h |-> h, l |-> l, c |-> c, v |-> v]
Header == CsvLine("header", 0, 0, 0, 0, 0, 0)
NullLine == CsvLine("null", 0, 0, 0, 0, 0, 0)

(* Array.prototype.filter(Boolean) on the mapped rows: null is dropped, a *)
(* row string is never empty                                               *)
Boolean(line) == line.kind # "null"

(* volume[i] ?? 0, and volume[i] ?? '0' in the text *)
OrZero(v) == IF v = JNull THEN 0 ELSE v.n

CandlestickData(u, i) ==
    [time |-> u.timestamp[i], open |-> u.open[i], high |-> u.high[i],
     low |-> u.low[i], close |-> u.close[i]]

(* a volume point stamped with the start of the bar's day *)
VolumeData_Dated(u, i) ==
    [time |-> Num(DateOf(u.timestamp[i]) * SecondsPerDay),
     value |-> OrZero(u.volume[i]),
     color |-> IF u.close[i].n >= u.open[i].n THEN UpColor ELSE DownColor]

(* geminiService.ts:225 and :137 *)
VolumeData(u, i) ==
    [time |-> u.timestamp[i], value |-> OrZero(u.volume[i]),
     color |-> IF u.close[i].n >= u.open[i].n THEN UpColor ELSE DownColor]

(* geminiService.ts:227-233 and :134, :139 *)
CsvRow(u, i) ==
    CsvLine("row", DateOf(u.timestamp[i]), toFixed2(u.open[i].n),
            toFixed2(u.high[i].n), toFixed2(u.low[i].n),
            toFixed2(u.close[i].n), OrZero(u.volume[i]))

(* a test that takes a falsy value for a missing one *)
SkipRow_Falsy(u, i) ==
    \/ u.timestamp[i] \in {JNull, Num(0)}
    \/ u.open[i] \in {JNull, Num(0)}
    \/ u.high[i] \in {JNull, Num(0)}
    \/ u.low[i] \in {JNull, Num(0)}
    \/ u.close[i] \in {JNull, Num(0)}

(* the test of geminiService.ts:220 *)
SkipRow(u, i) ==
    \/ u.timestamp[i] = JNull
    \/ u.open[i] = JNull
    \/ u.high[i] = JNull
    \/ u.low[i] = JNull
    \/ u.close[i] = JNull

NoSeries ==
    [kind |-> "pending", candlestickData |-> << >>, volumeData |-> << >>,
     csv |-> << >>, error |-> Null]
SeriesThrow(e) == [NoSeries EXCEPT !.kind = "throw", !.error = e]

(* the callback of timestamp.map, geminiService.ts:219-234: acc holds the *)
(* two arrays pushed to and the values returned so far                     *)
yahooRow(u, i, acc) ==
    IF SkipRow(u, i)
    THEN [acc EXCEPT !.csv = Append(@, NullLine)]
    ELSE [acc EXCEPT
             !.candlestickData = Append(@, CandlestickData(u, i)),
             !.volumeData = Append(@, VolumeData(u, i)),
             !.csv = Append(@, CsvRow(u, i))]

RECURSIVE yahooMap(_, _, _)
yahooMap(u, i, acc) ==
    IF i > Len(u.timestamp) THEN acc
    ELSE yahooMap(u, i + 1, yahooRow(u, i, acc))

(* geminiService.ts:215-237 *)
yahooNormalize(u) ==
    LET acc == yahooMap(u, 1, NoSeries)
    IN [acc EXCEPT !.kind = "return",
                   !.csv = <<Header>> \o SelectSeq(acc.csv, Boolean)]

(* the callback of t.map, geminiService.ts:133-140: both arrays are       *)
(* pushed to before toFixed is called on o[i], h[i], l[i] and c[i], which  *)
(* throws a TypeError on null                                              *)
finnhubRow(u, i, acc) ==
    IF acc.kind = "throw" THEN acc
    ELSE IF JNull \in {u.open[i], u.high[i], u.low[i], u.close[i]}
    THEN SeriesThrow("TypeError")
    ELSE [acc EXCEPT
             !.candlestickData = Append(@, CandlestickData(u, i)),
             !.volumeData = Append(@, VolumeData(u, i)),
             !.csv = Append(@, CsvLine("row",
                        IF u.timestamp[i] = JNull THEN 0
                        ELSE DateOf(u.timestamp[i]),
                        toFixed2(u.open[i].n), toFixed2(u.high[i].n),
                        toFixed2(u.low[i].n), toFixed2(u.close[i].n),
                        OrZero(u.volume[i])))]

RECURSIVE finnhubMap(_, _, _)
finnhubMap(u, i, acc) ==
    IF i > Len(u.timestamp) THEN acc
    ELSE finnhubMap(u, i + 1, finnhubRow(u, i, acc))

(* geminiService.ts:125-142 *)
finnhubNormalize(u) ==
    IF Len(u.timestamp) = 0 THEN SeriesThrow("noSeries")
    ELSE LET acc == finnhubMap(u, 1, NoSeries)
         IN IF acc.kind = "throw" THEN acc
            ELSE [acc EXCEPT !.kind = "return", !.csv = <<Header>> \o acc.csv]

SeriesIdle ==
    /\ nProvider = "none"
    /\ upstream = Arrays(<< >>, << >>)
    /\ series = NoSeries

(* a provider has answered with arrays of up to MaxRows bars *)
SeriesInit ==
    /\ nProvider \in {"yahoo", "finnhub"}
    /\ \E n \in 0..MaxRows :
          \E ts \in [1..n -> TimeInputs], q \in [1..n -> QuoteInputs] :
             upstream = Arrays(ts, q)
    /\ series = NoSeries

NormalizeYahoo ==
    /\ nProvider = "yahoo"
    /\ series.kind = "pending"
    /\ series' = yahooNormalize(upstream)
    /\ UNCHANGED << nProvider, upstream, monitorVars, sOp, sSymbol, sPc,
                    proxyIdx, lastError, timeoutArmed, primary, log, outcome,
                    finnhubKey, sTimeframe, requests, twiceVars >>

NormalizeFinnhub ==
    /\ nProvider = "finnhub"
    /\ series.kind = "pending"
    /\ series' = finnhubNormalize(upstream)
    /\ UNCHANGED << nProvider, upstream, monitorVars, sOp, sSymbol, sPc,
                    proxyIdx, lastError, timeoutArmed, primary, log, outcome,
                    finnhubKey, sTimeframe, requests, twiceVars >>

Init == MonitorInit /\ ServiceIdle /\ SeriesIdle /\ TwiceIdle

Next ==
    \/ SubmitSymbol
    \/ SubmitImage
    \/ ConvertDone
    \/ ConvertFail
    \/ \E s \in BOOLEAN, c \in BOOLEAN : AnalysisResolved(s, c)
    \/ AnalysisRejected
    \/ \E t \in activeTimers : Tick(t)
    \/ \E i \in 1..MaxInFlight, p \in QuoteValues \cup {Null} : TickDone(i, p)
    \/ Unmount

Spec == Init /\ [][Next]_vars

InitService == MonitorInit /\ ServiceInit /\ SeriesIdle /\ TwiceIdle

NextService ==
    \/ SvcStart
    \/ \E res \in RelayFetchResults : RelayFetch(res)
    \/ \E res \in RelayBodyResults, price \in PriceFields,
          shape \in SeriesShapes : RelayBody(res, price, shape)
    \/ \E res \in FinnhubFetchResults : FinnhubFetch(res)
    \/ \E res \in FinnhubBodyResults, price \in PriceFields,
          shape \in FinnhubShapes : FinnhubBody(res, price, shape)

SpecService == InitService /\ [][NextService]_vars

InitUnconfigured ==
    MonitorInit /\ UnconfiguredInit /\ SeriesIdle /\ TwiceIdle

(* without a credential no Finnhub request is ever outstanding *)
NextUnconfigured ==
    \/ SvcStart
    \/ \E res \in RelayFetchResults : RelayFetch(res)
    \/ \E res \in RelayBodyResults, price \in PriceFields,
          shape \in SeriesShapes : RelayBody(res, price, shape)

SpecUnconfigured == InitUnconfigured /\ [][NextUnconfigured]_vars

InitSeries == MonitorInit /\ ServiceIdle /\ SeriesInit /\ TwiceIdle

NextSeries == NormalizeYahoo \/ NormalizeFinnhub

SpecSeries == InitSeries /\ [][NextSeries]_vars

InitTwice == MonitorInit /\ TwiceInit /\ SeriesIdle

NextTwice ==
    \/ TwiceStart
    \/ \E res \in RelayFetchResults : TwiceRelayFetch(res)
    \/ \E res \in RelayBodyResults, price \in PriceFields \cup {NullValue} :
          TwiceRelayBody(res, price)
    \/ \E res \in FinnhubFetchResults : TwiceFinnhubFetch(res)
    \/ \E res \in FinnhubBodyResults, price \in PriceFields \cup {NullValue} :
          TwiceFinnhubBody(res, price)
    \/ CallAgain

SpecTwice == InitTwice /\ [][NextTwice]_vars

(* ====================================================================== *)
(* Properties of the monitor, checked under Spec                           *)
(* ====================================================================== *)

(* C1: at every moment at most one fetchLivePrice call of the monitor is   *)
(* outstanding.                                                            *)
C1_AtMostOneInFlight == Len(inflight) <= 1

(* C2: the result of a quote request that was outstanding when             *)
(* stopPolling() was called changes neither livePrice nor                  *)
(* pollingFailureCount nor isPollingHalted when it arrives.                *)
C2_StoppedResultNotApplied ==
    [][\A i \in 1..Len(inflight) :
          (inflight[i].stopped /\ inflight' = RemoveAt(inflight, i))
          => /\ livePrice' = livePrice
             /\ pollingFailureCount' = pollingFailureCount
             /\ isPollingHalted' = isPollingHalted]_vars

(* C3: in a session that was not stopped, once 5 failures in a row have    *)
(* been applied the session's timer is cancelled, the handle is null, the  *)
(* halted flag is set, and setIsPollingHalted(true) ran exactly once for   *)
(* the session, also when more failures arrive after the fifth.            *)
C3_HaltedExactlyOnce ==
    /\ haltEmits <= 1
    /\ (sessionTimer # 0 /\ ~sessionStopped /\ failRun >= FailureThreshold)
       => /\ isPollingHalted
          /\ priceUpdateInterval = 0
          /\ sessionTimer \notin activeTimers
          /\ haltEmits = 1

(* a sixth failure in a row has been applied to a halted session *)
C3_Witness ==
    /\ sessionTimer # 0
    /\ ~sessionStopped
    /\ failRun > FailureThreshold
    /\ isPollingHalted
    /\ haltEmits = 1
    /\ lastOp.op = "apply"
    /\ lastOp.result = Null

(* C4: a success applied by a tick leaves pollingFailureCount at 0 and     *)
(* livePrice at the new price; a halt after a success of the session comes *)
(* only with 5 failures in a row after that success.                       *)
C4_SuccessResets ==
    /\ (lastOp.op = "apply" /\ lastOp.result # Null)
       => (pollingFailureCount = 0 /\ livePrice = lastOp.result)
    /\ (lastOp.op = "apply" /\ lastOp.halted /\ successSeen)
       => failRun >= FailureThreshold

(* a session that saw a success and then halted *)
C4_Witness ==
    /\ lastOp.op = "apply"
    /\ lastOp.halted
    /\ successSeen
    /\ livePrice \in QuoteValues
    /\ failRun = FailureThreshold

(* C5: at the moment a session's timer is registered pollingFailureCount   *)
(* is 0, isPollingHalted is false and livePrice is empty.                  *)
C5_FreshAtRegistration ==
    lastOp.op = "register"
    => (pollingFailureCount = 0 /\ ~isPollingHalted /\ livePrice = Null)

(* C6: after stopPolling() no timer is registered and                      *)
(* pollingFailureCount is 0, and a second stopPolling() changes nothing.   *)
C6_StopLeavesIdle ==
    lastOp.op = "stop"
    => /\ priceUpdateInterval = 0
       /\ activeTimers = {}
       /\ pollingFailureCount = 0
       /\ stopPolling(Cells, FALSE) = Cells

(* C7: at most one polling timer is registered at any time.                *)
C7_AtMostOneTimer == Cardinality(activeTimers) <= 1

(* C8: while isPollingHalted is true it stays true and no quote request is *)
(* issued, until a new analysis request starts.                            *)
C8_HaltedIsQuiet ==
    [][isPollingHalted
       => /\ lastOp'.op # "issue"
          /\ (isPollingHalted' \/ pending' = pending + 1)]_vars

(* C22: a tick, when it is issued and when its quote arrives, changes     *)
(* neither error nor analysisReport nor chartData; when a tick ends the    *)
(* polling by itself, it raises isPollingHalted, which is the only trace   *)
(* of the failures.                                                        *)
C22_TickKeepsCallerState ==
    [][lastOp'.op \in {"issue", "apply"}
       => /\ error' = error
          /\ analysisReport' = analysisReport
          /\ chartData' = chartData
          /\ isLoading' = isLoading
          /\ activeTimers' # activeTimers => isPollingHalted']_vars

(* the fifth failure has halted the session of a report that is on show *)
C22_Witness ==
    /\ lastOp.op = "apply"
    /\ lastOp.halted
    /\ isPollingHalted
    /\ activeTimers = {}
    /\ error = Null
    /\ analysisReport = "report"

(* C23: a tick whose quote is absent leaves livePrice as it is and adds    *)
(* one to pollingFailureCount, changing nothing else; when it is the tick  *)
(* that halts the session, livePrice is kept as well.                      *)
C23_FailureKeepsPrice ==
    [][(lastOp'.op = "apply" /\ lastOp'.result = Null)
       => /\ livePrice' = livePrice
          /\ IF lastOp'.halted
             THEN isPollingHalted' /\ priceUpdateInterval' = 0
             ELSE /\ pollingFailureCount' = pollingFailureCount + 1
                  /\ isPollingHalted' = isPollingHalted
                  /\ priceUpdateInterval' = priceUpdateInterval
                  /\ activeTimers' = activeTimers]_vars

(* a session that published a price is halted with the price still shown *)
C23_Witness ==
    /\ lastOp.op = "apply"
    /\ lastOp.result = Null
    /\ lastOp.halted
    /\ isPollingHalted
    /\ livePrice = "101.50"

(* C24: once the component is unmounted no polling timer is registered.    *)
C24_NoTimerAfterUnmount == ~mounted => activeTimers = {}

(* C26: pollingFailureCount is between 0 and 5.                            *)
C26_CountWithinThreshold == pollingFailureCount \in 0..FailureThreshold

(* C28: while isPollingHalted is true no polling timer is registered (and  *)
(* so, while one is registered, isPollingHalted is false).                 *)
C28_HaltedMeansNoTimer == isPollingHalted => activeTimers = {}

(* C27: a tick halts the session only when the last 5 results of ticks of *)
(* that session (issued by its timer, after the last stopPolling()) were   *)
(* all failures.                                                           *)
C27_HaltByOwnFailures ==
    (lastOp.op = "apply" /\ lastOp.halted) => ownFailRun >= FailureThreshold

(* C29: while an analysis request is in progress no polling timer is       *)
(* registered, and when a request has just failed no timer is registered,  *)
(* the handle is null, isPollingHalted is false and error is set.          *)
C29_TimerOnlyAfterSuccess ==
    /\ pending > 0 => activeTimers = {}
    /\ lastOp.op = "reject"
       => /\ activeTimers = {}
          /\ priceUpdateInterval = 0
          /\ ~isPollingHalted
          /\ error # Null

(* C30: a price published by a tick of the current session is not from a   *)
(* tick that was issued before one whose price is already published.       *)
C30_NoOlderQuoteOverwrites ==
    (/\ lastOp.op = "apply"
     /\ lastOp.result # Null
     /\ lastOp.own)
    => ~lastOp.overtaken

(* ====================================================================== *)
(* Properties of one market data call, checked under SpecService           *)
(* ====================================================================== *)

Count(e) == Cardinality({i \in 1..Len(log) : log[i].ev = e})

(* C9: fetchLivePrice never throws: whatever the relay attempts and the    *)
(* Finnhub request yield, the call is never in a thrown state and, once    *)
(* done, has returned a string or null.                                    *)
C9_QuoteNeverThrows ==
    sOp = "quote"
    => /\ outcome.kind # "throw"
       /\ sPc = "done"
          => /\ outcome.kind = "return"
             /\ outcome.value.t \in {"null", "fixed2", "N/A"}

(* both providers were tried over the network and both failed: null *)
C9_Witness ==
    /\ sOp = "quote"
    /\ sPc = "done"
    /\ primary = "failed"
    /\ Count("proxy") = Len(PROXIES)
    /\ Count("finnhub.fetch") = 1
    /\ outcome = Return(NullValue)

(* C10: for fetchLivePrice and fetchMarketData the Yahoo provider is       *)
(* invoked at most once and first; the Finnhub provider is invoked exactly *)
(* once when the Yahoo attempt failed, after every relay attempt, and not  *)
(* at all while the Yahoo attempt is running or when it succeeded.         *)
C10_PrimaryThenSecondary ==
    sOp \in {"quote", "series"}
    => /\ Count("yahoo") <= 1
       /\ Count("finnhub") <= 1
       /\ primary = "failed" => Count("finnhub") = 1
       /\ primary # "failed" => Count("finnhub") = 0
       /\ \A i, j \in 1..Len(log) :
             (log[i].ev \in {"yahoo", "proxy"}
                /\ log[j].ev \in {"finnhub", "finnhub.fetch"}) => i < j

(* the relay was exhausted and the series came from Finnhub *)
C10_Witness ==
    /\ sOp = "series"
    /\ sPc = "done"
    /\ primary = "failed"
    /\ Count("proxy") = Len(PROXIES)
    /\ Count("finnhub") = 1
    /\ outcome = Return(Val("series.finnhub", 0))

(* C11: fetchMarketData returns the Yahoo series when the primary path     *)
(* succeeds, the Finnhub series when the primary path fails and the        *)
(* Finnhub function returns, and throws only after both have failed, with  *)
(* the message of line 255 and never with a provider's own error.          *)
C11_SeriesFallbackWrapped ==
    (sOp = "series" /\ sPc = "done")
    => /\ primary = "ok" => outcome = Return(Val("series.yahoo", 0))
       /\ (primary = "failed" /\ Count("finnhub.return") > 0)
              => outcome = Return(Val("series.finnhub", 0))
       /\ outcome.kind = "throw"
              => /\ primary = "failed"
                 /\ Count("relay.throw") + Count("proxy.data") = 1
                 /\ Count("finnhub.throw") = 1
                 /\ outcome.error = AllProvidersFailedMessage

(* the relay is exhausted and the Finnhub request is refused *)
C11_Witness ==
    /\ sOp = "series"
    /\ sPc = "done"
    /\ Count("relay.throw") = 1
    /\ Count("finnhub.fetch") = 1
    /\ outcome = Throw(AllProvidersFailedMessage)

(* C12: with an empty FINNHUB_API_KEY no Finnhub request is issued; after  *)
(* a failed primary path fetchMarketData throws the message of line 248,   *)
(* which is not the message thrown after a failed fallback, and            *)
(* fetchLivePrice returns null.                                            *)
C12_NoCredentialNoFallback ==
    finnhubKey = ""
    => /\ Count("finnhub.fetch") = 0
       /\ sPc \notin {"finnhubFetch", "finnhubBody"}
       /\ (sPc = "done" /\ primary = "failed" /\ sOp = "series")
              => /\ outcome = Throw(FallbackUnavailableMessage)
                 /\ outcome # fetchMarketData_catch(Throw("keyNotSet"))
                 /\ Count("finnhub") = 0
       /\ (sPc = "done" /\ primary = "failed" /\ sOp = "quote")
              => outcome = Return(NullValue)

(* a quote call whose four relay attempts failed, without a credential *)
C12_Witness ==
    /\ finnhubKey = ""
    /\ sOp = "quote"
    /\ sPc = "done"
    /\ Count("relay.throw") = 1
    /\ outcome = Return(NullValue)

(* C13: within one relay call the proxies are tried in the order of        *)
(* PROXIES, one at a time: an attempt starts only when the one before it   *)
(* has failed, every failed attempt but the last is followed at once by    *)
(* the next proxy, and after a valid payload no proxy is contacted.        *)
C13_RelayInPriorityOrder ==
    /\ \A k \in 1..Len(log) :
          log[k].ev = "proxy"
          => /\ log[k].i = Cardinality({j \in 1..k : log[j].ev = "proxy"})
             /\ log[k].i > 1
                   => /\ log[k - 1].ev = "proxy.fail"
                      /\ log[k - 1].i = log[k].i - 1
    /\ \A k \in 1..Len(log) :
          (log[k].ev = "proxy.fail" /\ log[k].i < Len(PROXIES))
          => /\ k < Len(log)
             /\ log[k + 1] = Ev("proxy", log[k].i + 1)
    /\ \A k \in 1..Len(log) :
          log[k].ev = "proxy.data"
          => /\ \A j \in (k + 1)..Len(log) : log[j].ev # "proxy"
             /\ sPc \notin {"relayFetch", "relayBody"}
    /\ Count("proxy") - Count("proxy.fail") - Count("proxy.data")
          = IF sPc \in {"relayFetch", "relayBody"} THEN 1 ELSE 0

(* the third proxy answers after a timeout and a bad status *)
C13_Witness ==
    /\ Count("proxy.data") = 1
    /\ Count("proxy") = 3
    /\ \E k \in 1..Len(log) : log[k] = EvD("proxy.fail", 1, "AbortError")
    /\ \E k \in 1..Len(log) : log[k] = EvD("proxy.fail", 2, "status")

(* C14: yahooFinanceFetch throws exactly when all four attempts failed;    *)
(* the error it throws (lastError) is the error of the fourth attempt, and *)
(* is the timeout message exactly when that attempt was aborted.           *)
C14_RelayThrowsLastError ==
    /\ Count("relay.throw") > 0 <=> Count("proxy.fail") = Len(PROXIES)
    /\ Count("relay.throw") > 0 => Count("proxy.data") = 0
    /\ Count("relay.throw") > 0
          => \A k \in 1..Len(log) :
                (log[k].ev = "proxy.fail" /\ log[k].i = Len(PROXIES))
                => /\ log[k].d # "AbortError" => lastError = log[k].d
                   /\ log[k].d = "AbortError" <=> lastError = TimeoutMessage

(* the last attempt is aborted after an earlier one failed otherwise *)
C14_Witness ==
    /\ Count("relay.throw") = 1
    /\ lastError = TimeoutMessage
    /\ \E k \in 1..Len(log) : log[k] = EvD("proxy.fail", 3, "apiError")

(* C15: at every point of a relay attempt, while the response is awaited   *)
(* and while its body is read, the attempt's 30 s timeout is pending.      *)
C15_AttemptUnderTimeout ==
    sPc \in {"relayFetch", "relayBody"} => timeoutArmed

(* C16: a call makes at most four relay attempts and one Finnhub request,  *)
(* and a timeout is pending for as long as the Finnhub request is.         *)
C16_SecondaryUnderTimeout ==
    /\ Count("proxy") <= Len(PROXIES)
    /\ Count("finnhub.fetch") <= 1
    /\ sPc \in {"finnhubFetch", "finnhubBody"} => timeoutArmed

C20_QuoteIsFixedOrNull ==
    (sOp = "quote" /\ sPc = "done")
    => /\ outcome.kind = "return"
       /\ outcome.value.t \in {"null", "fixed2"}

(* C18: in every series built, from either provider, candlestickData and   *)
(* volumeData have the same length and the same time at every index, and   *)
(* when the provider's timestamps are all there and strictly ascending the *)
(* candle times are strictly ascending.                                    *)
C18_SeriesAligned ==
    series.kind = "return"
    => LET cd == series.candlestickData
           vd == series.volumeData
           ts == upstream.timestamp
       IN /\ Len(cd) = Len(vd)
          /\ \A k \in 1..Len(cd) : cd[k].time = vd[k].time
          /\ (/\ \A i \in 1..Len(ts) : ts[i] # JNull
              /\ \A i \in 1..Len(ts), j \in 1..Len(ts) :
                    i < j => ts[i].n < ts[j].n)
             => \A k \in 1..(Len(cd) - 1) : cd[k].time.n < cd[k + 1].time.n

(* two complete bars on the same day, in ascending order *)
C18_Witness ==
    /\ series.kind = "return"
    /\ Len(series.candlestickData) = 2
    /\ series.candlestickData[1].time = Num(HalfDay)
    /\ series.candlestickData[2].time = Num(2 * HalfDay)

(* C19: the Yahoo normalization keeps index i exactly when timestamp[i],   *)
(* open[i], high[i], low[i] and close[i] are all non-null; the kept bars   *)
(* appear in upstream order as the candles, the volume points and the csv  *)
(* rows after the header, a null volume counting as 0; a dropped index     *)
(* appears in none of the three.                                           *)
C19_KeptRowsOnly ==
    (nProvider = "yahoo" /\ series.kind = "return")
    => LET u == upstream
           kept == {i \in 1..Len(u.timestamp) :
                       /\ u.timestamp[i] # JNull
                       /\ u.open[i] # JNull
                       /\ u.high[i] # JNull
                       /\ u.low[i] # JNull
                       /\ u.close[i] # JNull}
           at(k) == CHOOSE i \in kept :
                       Cardinality({j \in kept : j <= i}) = k
       IN /\ Len(series.candlestickData) = Cardinality(kept)
          /\ Len(series.volumeData) = Cardinality(kept)
          /\ Len(series.csv) = 1 + Cardinality(kept)
          /\ series.csv[1].kind = "header"
          /\ \A k \in 1..Cardinality(kept) :
                /\ series.candlestickData[k]
                      = [time |-> u.timestamp[at(k)], open |-> u.open[at(k)],
                         high |-> u.high[at(k)], low |-> u.low[at(k)],
                         close |-> u.close[at(k)]]
                /\ series.volumeData[k].time = u.timestamp[at(k)]
                /\ series.volumeData[k].value
                      = IF u.volume[at(k)] = JNull THEN 0
                        ELSE u.volume[at(k)].n
                /\ series.csv[k + 1].kind = "row"
                /\ series.csv[k + 1].date = u.timestamp[at(k)].n \div 86400
                /\ series.csv[k + 1].o = (u.open[at(k)].n + 5) \div 10
                /\ series.csv[k + 1].h = (u.high[at(k)].n + 5) \div 10
                /\ series.csv[k + 1].l = (u.low[at(k)].n + 5) \div 10
                /\ series.csv[k + 1].c = (u.close[at(k)].n + 5) \div 10
                /\ series.csv[k + 1].v = series.volumeData[k].value

(* three bars: the second has no high and is dropped, the third has no    *)
(* volume and is kept                                                      *)
C19_Witness ==
    /\ nProvider = "yahoo"
    /\ series.kind = "return"
    /\ Len(upstream.timestamp) = 3
    /\ upstream.high[2] = JNull
    /\ upstream.volume[3] = JNull
    /\ Len(series.candlestickData) = 2
    /\ series.volumeData[2].value = 0

(* C25: every query of a series call asks for the bar size of its        *)
(* timeframe, 15 minutes for Intraday, a week for Weekly, a month for      *)
(* Monthly and a day for every other value, so that the Yahoo query and    *)
(* the Finnhub query of one call ask for the same bar size; for a value    *)
(* other than Intraday, Weekly and Monthly each provider builds the query  *)
(* it builds for Daily.                                                    *)
C25_TimeframeMapping ==
    LET Class(step) ==
            CASE step \in {"15m", "15"} -> "15-minute"
              [] step \in {"1d", "D"} -> "daily"
              [] step \in {"1wk", "W"} -> "weekly"
              [] step \in {"1mo", "M"} -> "monthly"
              [] OTHER -> "other"
        Wanted ==
            CASE sTimeframe = "Intraday" -> "15-minute"
              [] sTimeframe = "Weekly" -> "weekly"
              [] sTimeframe = "Monthly" -> "monthly"
              [] OTHER -> "daily"
    IN sOp = "series"
       => /\ \A k \in 1..Len(requests) : Class(requests[k].step) = Wanted
          /\ \A j \in 1..Len(requests), k \in 1..Len(requests) :
                Class(requests[j].step) = Class(requests[k].step)
          /\ sTimeframe \notin {"Intraday", "Weekly", "Monthly"}
             => \A k \in 1..Len(requests) :
                   requests[k] \in {Query("yahoo", "1d", "2y"),
                                    Query("finnhub", "D", "2y")}

(* a weekly series call has asked Yahoo and then Finnhub *)
C25_Witness ==
    /\ sOp = "series"
    /\ sTimeframe = "Weekly"
    /\ Len(requests) = 2
    /\ requests[1].provider = "yahoo"
    /\ requests[2].provider = "finnhub"

(* ====================================================================== *)
(* Two calls in a row, checked under SpecTwice                             *)
(* ====================================================================== *)

====
